---------------------------- MODULE Spec2Model ----------------------------
(***************************************************************************)
(* Model of daviduhlir/permissions-guard, lib/components/                  *)
(* PermissionsGuardClass.ts: the rule parser and matcher (parseRule,       *)
(* matchRule, match) and the scoped permission context kept in Node's      *)
(* AsyncLocalStorage (runWithPermissions, getContext and the checks).      *)
(*                                                                         *)
(* A rule string is a sequence of one-character strings, so that split,    *)
(* filter and trim are computed the way the code computes them.            *)
(***************************************************************************)
EXTENDS Naturals, Sequences, FiniteSets

VARIABLES
  stack,      \* AsyncLocalStorage: per call chain, the stores entered by storage.run
  frames,     \* per call chain, the runWithPermissions calls whose callback is running
  op,         \* per call chain, the API call in flight or just settled
  fnArgs,     \* arguments of the static function under evaluation (parseRule, matchRule, match)
  fnResult    \* its outcome

vars == <<stack, frames, op, fnArgs, fnResult>>

---------------------------------------------------------------------------
(* Characters and strings *)

\* The characters rule strings are drawn from: the separator, two literal
\* letters differing only in case, the wildcard character, a blank.
Chars == {"/", "a", "A", "*", " "}

\* /[\n\r\t]/ of parseRule
ControlChars == {"\n", "\r", "\t"}

\* what String.prototype.trim strips, among the characters of the model
Whitespace == {" ", "\n", "\r", "\t"}

\* longest rule string enumerated exhaustively
MaxLen == 3

\* longest list of rules handed to match
MaxList == 2

\* the most arguments handed to mergeVariables
MaxArgs == 2

\* most suspensions of one callback on awaits that are not calls of the guard
MaxAwaits == 2

\* the limit of parseRule
MaxRuleLength == 2048

Strings(n) == UNION {[1..k -> Chars] : k \in 0..n}

\* a rule value that is not a string (typeof rule !== 'string'), e.g. the number 42
NotAString == <<"#42">>

typeof(rule) == IF rule = NotAString THEN "number" ELSE "string"

---------------------------------------------------------------------------
(* Errors and outcomes of a call *)

NoDetails == [required |-> <<>>, notMatched |-> <<>>]

NoError == [name |-> "none", message |-> "", details |-> NoDetails]

\* class PermissionError, message only
PermissionError(message) ==
  [name |-> "PermissionError", message |-> message, details |-> NoDetails]

\* class PermissionRuleError: the parameter property `message` overwrites the
\* text handed to super(), so err.message is the default 'Permissions denied'
PermissionRuleError(details) ==
  [name |-> "PermissionRuleError", message |-> "Permissions denied", details |-> details]

\* a plain Error
Error(message) ==
  [name |-> "Error", message |-> message, details |-> NoDetails]

Undefined == "undefined"

\* the outcome of a call that has not settled
Pending == [threw |-> FALSE, value |-> "pending", error |-> NoError]

Return(v) == [threw |-> FALSE, value |-> v, error |-> NoError]

Throw(e) == [threw |-> TRUE, value |-> Undefined, error |-> e]

---------------------------------------------------------------------------
(* parseRule *)

\* String.prototype.split('/'): the pieces between separators, empty ones kept;
\* one piece more than there are separators
split(s) ==
  LET separators == {i \in 1..Len(s) : s[i] = "/"}
      count == Cardinality(separators)
      \* where the k-th separator is; 0 before the string, Len(s) + 1 after it
      at(k) == IF k = 0 THEN 0
               ELSE IF k = count + 1 THEN Len(s) + 1
               ELSE CHOOSE i \in separators : Cardinality({j \in separators : j <= i}) = k
  IN  [k \in 1..(count + 1) |-> SubSeq(s, at(k - 1) + 1, at(k) - 1)]

RECURSIVE trimStart(_)
trimStart(s) ==
  IF s # <<>> /\ Head(s) \in Whitespace THEN trimStart(Tail(s)) ELSE s

RECURSIVE trimEnd(_)
trimEnd(s) ==
  IF s # <<>> /\ s[Len(s)] \in Whitespace THEN trimEnd(SubSeq(s, 1, Len(s) - 1)) ELSE s

\* String.prototype.trim
trim(s) == trimEnd(trimStart(s))

\* .filter(Boolean): the empty string is the only falsy string
filterBoolean(segs) == SelectSeq(segs, LAMBDA x : x # <<>>)

\* the error parseRule throws for this rule, NoError when it returns
parseRuleError(rule) ==
  IF typeof(rule) # "string" THEN PermissionError("Permission rule must be a string")
  ELSE IF Len(rule) > MaxRuleLength THEN PermissionError("Permission rule is too long")
  ELSE IF \E i \in 1..Len(rule) : rule[i] \in ControlChars
       THEN PermissionError("Invalid characters in permission rule")
  ELSE NoError

\* the segments parseRule returns for a rule it accepts
parseRule(rule) ==
  LET segs == filterBoolean(split(rule))
  IN  [i \in 1..Len(segs) |-> trim(segs[i])]

---------------------------------------------------------------------------
(* mergeVariables *)

\* the TypeError of calling something that is not a function
TypeError(message) ==
  [name |-> "TypeError", message |-> message, details |-> NoDetails]

\* the keys of the variable sets: two variable names, and one that is also
\* the name of a member of Object.prototype
Keys == {"x", "y", "constructor"}

\* the property names an object literal {} answers to without having them
ObjectPrototypeKeys == {"constructor"}

\* Object.keys(varSet), in one order
KeyOrder == <<"x", "y", "constructor">>

\* an argument that is undefined or null
NoVarSet == [present |-> FALSE, set |-> <<>>]

\* an argument that is an object: its own keys and their value lists
VarSet(set) == [present |-> TRUE, set |-> set]

\* the inner loop over Object.keys(varSet) from the k-th key on; result is the
\* object built so far, a function from its own keys to their lists
RECURSIVE mergeKeys(_, _, _)
mergeKeys(result, varSet, k) ==
  IF k > Len(KeyOrder) THEN Return(result)
  ELSE LET key == KeyOrder[k]
       IN  IF key \notin DOMAIN varSet THEN mergeKeys(result, varSet, k + 1)
           ELSE IF key \in DOMAIN result
                THEN mergeKeys([result EXCEPT ![key] = @ \o varSet[key]], varSet, k + 1)
           ELSE IF key \in ObjectPrototypeKeys
                THEN Throw(TypeError("result[key].push is not a function"))
           ELSE mergeKeys([x \in DOMAIN result \cup {key} |->
                             IF x = key THEN varSet[key] ELSE result[x]],
                          varSet, k + 1)

\* the outer loop over the arguments from the i-th on
RECURSIVE mergeFrom(_, _, _)
mergeFrom(result, varSets, i) ==
  IF i > Len(varSets) THEN Return(result)
  ELSE IF ~varSets[i].present THEN mergeFrom(result, varSets, i + 1)
  ELSE IF mergeKeys(result, varSets[i].set, 1).threw THEN mergeKeys(result, varSets[i].set, 1)
  ELSE mergeFrom(mergeKeys(result, varSets[i].set, 1).value, varSets, i + 1)

\* mergeVariables(...vars)
mergeVariables(varSets) == mergeFrom(<<>>, varSets, 1)

---------------------------------------------------------------------------
(* matchRule *)

Star == <<"*">>

DoubleStar == <<"*", "*">>

\* the while loop of matchRule and its final return; ruleIndex counts from 0
RECURSIVE matchRuleLoop(_, _, _)
matchRuleLoop(requiredRuleParts, ruleParts, ruleIndex) ==
  IF ruleIndex < Len(requiredRuleParts) /\ ruleIndex < Len(ruleParts)
  THEN LET rulePart == ruleParts[ruleIndex + 1]
       IN  IF rulePart = DoubleStar THEN TRUE
           ELSE IF rulePart = Star
                THEN matchRuleLoop(requiredRuleParts, ruleParts, ruleIndex + 1)
           ELSE IF rulePart # requiredRuleParts[ruleIndex + 1] THEN FALSE
           ELSE matchRuleLoop(requiredRuleParts, ruleParts, ruleIndex + 1)
  ELSE ruleIndex = Len(requiredRuleParts) /\ ruleIndex = Len(ruleParts)

\* the error matchRule throws: the required rule is parsed first, then the granted one
matchRuleError(requiredRule, rule) ==
  IF parseRuleError(requiredRule) # NoError THEN parseRuleError(requiredRule)
  ELSE parseRuleError(rule)

\* matchRule with '*' handled like '**'
RECURSIVE matchRuleLoopStarReturns(_, _, _)
matchRuleLoopStarReturns(requiredRuleParts, ruleParts, ruleIndex) ==
  IF ruleIndex < Len(requiredRuleParts) /\ ruleIndex < Len(ruleParts)
  THEN LET rulePart == ruleParts[ruleIndex + 1]
       IN  IF rulePart = DoubleStar \/ rulePart = Star THEN TRUE
           ELSE IF rulePart # requiredRuleParts[ruleIndex + 1] THEN FALSE
           ELSE matchRuleLoopStarReturns(requiredRuleParts, ruleParts, ruleIndex + 1)
  ELSE ruleIndex = Len(requiredRuleParts) /\ ruleIndex = Len(ruleParts)

matchRuleStarReturns(requiredRule, rule) ==
  matchRuleLoopStarReturns(parseRule(requiredRule), parseRule(rule), 0)

\* matchRule accepting every required rule the granted rule is a prefix of
matchRulePrefix(requiredRule, rule) ==
  LET requiredRuleParts == parseRule(requiredRule)
      ruleParts == parseRule(rule)
  IN  IF Len(requiredRuleParts) < Len(ruleParts) THEN FALSE
      ELSE \A i \in 1..Len(ruleParts) :
             ruleParts[i] = Star \/ ruleParts[i] = requiredRuleParts[i]

\* matchRule whose final test looks at the required rule's length only
RECURSIVE matchRuleLoopRequiredLengthOnly(_, _, _)
matchRuleLoopRequiredLengthOnly(requiredRuleParts, ruleParts, ruleIndex) ==
  IF ruleIndex < Len(requiredRuleParts) /\ ruleIndex < Len(ruleParts)
  THEN LET rulePart == ruleParts[ruleIndex + 1]
       IN  IF rulePart = DoubleStar THEN TRUE
           ELSE IF rulePart = Star
                THEN matchRuleLoopRequiredLengthOnly(requiredRuleParts, ruleParts, ruleIndex + 1)
           ELSE IF rulePart # requiredRuleParts[ruleIndex + 1] THEN FALSE
           ELSE matchRuleLoopRequiredLengthOnly(requiredRuleParts, ruleParts, ruleIndex + 1)
  ELSE ruleIndex = Len(requiredRuleParts)

matchRuleRequiredLengthOnly(requiredRule, rule) ==
  matchRuleLoopRequiredLengthOnly(parseRule(requiredRule), parseRule(rule), 0)

\* matchRule for which '**' covers the rest only as the last granted segment
RECURSIVE matchRuleLoopDoubleStarLast(_, _, _)
matchRuleLoopDoubleStarLast(requiredRuleParts, ruleParts, ruleIndex) ==
  IF ruleIndex < Len(requiredRuleParts) /\ ruleIndex < Len(ruleParts)
  THEN LET rulePart == ruleParts[ruleIndex + 1]
       IN  IF rulePart = DoubleStar THEN ruleIndex + 1 = Len(ruleParts)
           ELSE IF rulePart = Star
                THEN matchRuleLoopDoubleStarLast(requiredRuleParts, ruleParts, ruleIndex + 1)
           ELSE IF rulePart # requiredRuleParts[ruleIndex + 1] THEN FALSE
           ELSE matchRuleLoopDoubleStarLast(requiredRuleParts, ruleParts, ruleIndex + 1)
  ELSE ruleIndex = Len(requiredRuleParts) /\ ruleIndex = Len(ruleParts)

matchRuleDoubleStarLast(requiredRule, rule) ==
  matchRuleLoopDoubleStarLast(parseRule(requiredRule), parseRule(rule), 0)

\* matchRule for which '*' and '**' are wildcards in the required rule as well
RECURSIVE matchRuleLoopRequiredWildcards(_, _, _)
matchRuleLoopRequiredWildcards(requiredRuleParts, ruleParts, ruleIndex) ==
  IF ruleIndex < Len(requiredRuleParts) /\ ruleIndex < Len(ruleParts)
  THEN LET rulePart == ruleParts[ruleIndex + 1]
           requiredPart == requiredRuleParts[ruleIndex + 1]
       IN  IF rulePart = DoubleStar \/ requiredPart = DoubleStar THEN TRUE
           ELSE IF rulePart = Star \/ requiredPart = Star
                THEN matchRuleLoopRequiredWildcards(requiredRuleParts, ruleParts, ruleIndex + 1)
           ELSE IF rulePart # requiredPart THEN FALSE
           ELSE matchRuleLoopRequiredWildcards(requiredRuleParts, ruleParts, ruleIndex + 1)
  ELSE ruleIndex = Len(requiredRuleParts) /\ ruleIndex = Len(ruleParts)

matchRuleRequiredWildcards(requiredRule, rule) ==
  matchRuleLoopRequiredWildcards(parseRule(requiredRule), parseRule(rule), 0)

\* matchRule for which a granted rule without segments ('/') grants everything
matchRuleRootGrantsAll(requiredRule, rule) ==
  IF parseRule(rule) = <<>> THEN TRUE
  ELSE matchRuleLoop(parseRule(requiredRule), parseRule(rule), 0)

\* the boolean matchRule returns when both rules parse
matchRule(requiredRule, rule) ==
  matchRuleLoop(parseRule(requiredRule), parseRule(rule), 0)

---------------------------------------------------------------------------
(* match *)

\* `let matchedRule = null`
Null == <<"#null">>

\* JavaScript truthiness of matchedRule, which is null or a string
Truthy(v) == v # Null /\ v # <<>>

\* the inner loop of match: the first granted rule matchRule accepts, or the
\* error matchRule throws on the way
RECURSIVE innerLoop(_, _, _)
innerLoop(requiredRule, rules, j) ==
  IF j > Len(rules) THEN [error |-> NoError, matchedRule |-> Null]
  ELSE IF matchRuleError(requiredRule, rules[j]) # NoError
       THEN [error |-> matchRuleError(requiredRule, rules[j]), matchedRule |-> Null]
  ELSE IF matchRule(requiredRule, rules[j])
       THEN [error |-> NoError, matchedRule |-> rules[j]]
  ELSE innerLoop(requiredRule, rules, j + 1)

\* the outer loop of match and the throw that follows it
RECURSIVE outerLoop(_, _, _, _, _)
outerLoop(requiredRules, rules, i, notMatched, matched) ==
  IF i > Len(requiredRules)
  THEN IF Len(notMatched) # 0
       THEN Throw(PermissionRuleError([required |-> requiredRules, notMatched |-> notMatched]))
       ELSE Return(matched)
  ELSE LET found == innerLoop(requiredRules[i], rules, 1)
       IN  IF found.error # NoError THEN Throw(found.error)
           ELSE IF ~Truthy(found.matchedRule)
                THEN outerLoop(requiredRules, rules, i + 1,
                               Append(notMatched, requiredRules[i]), matched)
           ELSE outerLoop(requiredRules, rules, i + 1, notMatched,
                          Append(matched, <<requiredRules[i], found.matchedRule>>))

match(requiredRules, rules) == outerLoop(requiredRules, rules, 1, <<>>, <<>>)

---------------------------------------------------------------------------
(* Guards, owners, stores *)

\* the call chains (async execution flows) started independently of each other
Chains == {"c1", "c2"}

\* the PermissionsGuardClass instances, each standing for its `unique` symbol
Guards == {"A", "B"}

Owners == {"user123", "user456"}

\* const ownerBypassSymbol = Symbol('ownerBypassSymbol')
ownerBypassSymbol == "Symbol(ownerBypassSymbol)"

\* store[unique] of a store that has no such key
Absent == [present |-> FALSE, rules |-> <<>>, owner |-> Undefined]

\* the { rules, owner } object runWithPermissions puts under this.unique
Metadata(rules, owner) == [present |-> TRUE, rules |-> rules, owner |-> owner]

\* what storage.getStore() gives outside every storage.run: undefined, which
\* the spread and the optional chaining treat as an object without keys
NoStore == [g \in Guards |-> Absent]

\* a process-wide store instead of a chain-scoped one: the store of whichever
\* chain entered storage.run
getStoreProcessWide(st, ch) ==
  LET entered == {c \in Chains : st[c] # <<>>}
  IN  IF entered = {} THEN NoStore
      ELSE LET c == CHOOSE x \in entered : TRUE IN st[c][Len(st[c])]

\* storage.getStore(): the store of the innermost storage.run this chain is inside
getStore(st, ch) ==
  IF st[ch] = <<>> THEN NoStore ELSE st[ch][Len(st[ch])]

\* getContext: undefined (Absent) without a store entry, an Error for rules that
\* are not all strings, otherwise a copy of the entry
getContext(store, unique) ==
  IF ~store[unique].present THEN Return(Absent)
  ELSE IF \E i \in 1..Len(store[unique].rules) : typeof(store[unique].rules[i]) # "string"
       THEN [Throw(Error("Invalid rules: must be an array of strings")) EXCEPT !.value = Absent]
  ELSE Return(store[unique])

\* a store built without the spread of the current one: the entries of the
\* other guards are gone inside the new scope
newStoreWithoutSpread(current, unique, rules, owner) ==
  [NoStore EXCEPT ![unique] = Metadata(rules, owner)]

\* the object literal handed to storage.run
newStore(current, unique, rules, owner) ==
  [current EXCEPT ![unique] = Metadata(rules, owner)]

\* an ownerChecker that knows no bypass owner
ownerCheckerEqualityOnly(contextOwner, requestedOwner) ==
  contextOwner = requestedOwner

\* the default ownerChecker of the constructor
ownerChecker(contextOwner, requestedOwner) ==
  contextOwner = requestedOwner \/ contextOwner = ownerBypassSymbol

\* an ownerChecker handed to the constructor:
\* async (contextOwner, requestedOwner) => contextOwner === requestedOwner
strictOwnerChecker(contextOwner, requestedOwner) ==
  contextOwner = requestedOwner

\* the guards constructed without an argument; guard B is constructed with
\* strictOwnerChecker
DefaultPolicyGuards == {"A"}

\* this.ownerChecker of the guard
thisOwnerChecker(unique, contextOwner, requestedOwner) ==
  IF unique \in DefaultPolicyGuards THEN ownerChecker(contextOwner, requestedOwner)
  ELSE strictOwnerChecker(contextOwner, requestedOwner)

NestedMessage == "Nested permissions context is dangerous, and it is not allowed."

\* a store kept in a variable that run() sets for the synchronous part of the
\* callback only: what resumes after an await is outside every store
asyncResumeOutsideRun(stores) == <<>>

\* AsyncLocalStorage: the continuation of an await runs in the store that was
\* current where the await was made
asyncResume(stores) == stores

\* checks that withdraw the context they failed in
afterCheckRevokes(stores, result) ==
  IF result.threw /\ stores # <<>> THEN [stores EXCEPT ![Len(stores)] = NoStore] ELSE stores

\* the stores a check leaves behind: checkRequiredPermissions and
\* checkRequiredOwner work on the copy getContext hands them and write nothing
\* back, whether they return or throw
afterCheck(stores, result) == stores

\* AsyncLocalStorage: what a callback starts without awaiting it (a timer, a
\* promise chain) carries the store that was current where it was started, for
\* as long as it lives; storage.run returning does not take it away
asyncInherit(stores) == stores

\* a storage.run that leaves its store in place when the callback is done
runExitKeepsStore(stores) == stores

\* storage.run gives the store back: what runs after it is in the store that
\* was current before it
runExit(stores) == SubSeq(stores, 1, Len(stores) - 1)

---------------------------------------------------------------------------
(* The methods, from the context getContext gave them *)

\* required.forEach(rule => parseRule(rule)): the first error thrown
RECURSIVE forEachParseRule(_, _)
forEachParseRule(required, i) ==
  IF i > Len(required) THEN NoError
  ELSE IF parseRuleError(required[i]) # NoError THEN parseRuleError(required[i])
  ELSE forEachParseRule(required, i + 1)

\* checkRequiredPermissions without the forEach: a required rule is parsed only
\* when matchRule compares it with a granted rule
checkRequiredPermissionsLazyParse(context, required) ==
  IF context.threw THEN Throw(context.error)
  ELSE IF ~context.value.present THEN Throw(PermissionError("Unauthorized"))
  ELSE IF match(required, context.value.rules).threw
       THEN Throw(match(required, context.value.rules).error)
  ELSE Return(Undefined)

\* checkRequiredPermissions validating the required rules before it looks at the context
checkRequiredPermissionsParseFirst(context, required) ==
  IF context.threw THEN Throw(context.error)
  ELSE IF forEachParseRule(required, 1) # NoError THEN Throw(forEachParseRule(required, 1))
  ELSE IF ~context.value.present THEN Throw(PermissionError("Unauthorized"))
  ELSE IF match(required, context.value.rules).threw
       THEN Throw(match(required, context.value.rules).error)
  ELSE Return(Undefined)

\* checkRequiredPermissions after `await this.getContext()`
checkRequiredPermissions(context, required) ==
  IF context.threw THEN Throw(context.error)
  ELSE IF ~context.value.present THEN Throw(PermissionError("Unauthorized"))
  ELSE IF forEachParseRule(required, 1) # NoError THEN Throw(forEachParseRule(required, 1))
  ELSE IF match(required, context.value.rules).threw
       THEN Throw(match(required, context.value.rules).error)
  ELSE Return(Undefined)

\* a wrapper that calls checkRequiredPermissions without awaiting it
PermissionRequiredNoAwait(context, required, original) ==
  [started |-> TRUE, out |-> original]

\* the wrapper PermissionRequired(required) puts in place of a method:
\* `await this.checkRequiredPermissions(required)`, then the original method,
\* whose outcome is `original`; `started` tells whether the original was called
PermissionRequired(context, required, original) ==
  IF checkRequiredPermissions(context, required).threw
  THEN [started |-> FALSE, out |-> Throw(checkRequiredPermissions(context, required).error)]
  ELSE [started |-> TRUE, out |-> original]

\* checkRequiredOwner after `await this.getContext()`
checkRequiredOwner(unique, context, entityOwner) ==
  IF context.threw THEN Throw(context.error)
  ELSE IF ~context.value.present THEN Throw(PermissionError("Unauthorized"))
  ELSE IF ~thisOwnerChecker(unique, context.value.owner, entityOwner)
       THEN Throw(PermissionError("Unauthorized owner"))
  ELSE Return(Undefined)

\* getOwner after `await this.getContext()`
getOwner(context) ==
  IF context.threw THEN Throw(context.error)
  ELSE IF ~context.value.present THEN Throw(PermissionError("Unauthorized"))
  ELSE Return(context.value.owner)

\* lines 67-77 of runWithPermissions: `return await storage.run(...)` returns
\* the value the callback's promise fulfils with, `catch (err) { throw err }`
\* throws what it rejects with
runWithPermissionsSettles(callback) ==
  IF callback.threw THEN Throw(callback.error) ELSE Return(callback.value)

\* runWithPermissions without the nesting test
runWithPermissionsErrorNoNestingTest(context) ==
  IF context.threw THEN context.error ELSE NoError

\* lines 63-66 of runWithPermissions: the error thrown before storage.run, if any
runWithPermissionsError(context) ==
  IF context.threw THEN context.error
  ELSE IF context.value.present THEN Error(NestedMessage)
  ELSE NoError

---------------------------------------------------------------------------
(* Inputs of the calls *)

EntityRead == <<"e", "/", "r">>

EntityWrite == <<"e", "/", "w">>

\* 'entity/:ownedEntities/read', the variable written x
EntityOwnedRead == <<"e", "/", ":", "x", "/", "r">>

Entity1Read == <<"e", "/", "1", "/", "r">>

Entity3Read == <<"e", "/", "3", "/", "r">>

\* 'entity/\nread'
EntityNewlineRead == <<"e", "/", "\n", "r">>

\* the variable bindings a caller passes: the list of values of x
NoVariables == <<>>

RunArgs(rules, owner, variables, inheritRule) ==
  [rules |-> rules, owner |-> owner, variables |-> variables, inheritRule |-> inheritRule]

\* the arguments each chain calls runWithPermissions with, per guard
RunArgsOf(ch, unique) ==
  IF ch = "c1" /\ unique = "A"
  THEN {RunArgs(<<EntityRead>>, "user123", NoVariables, FALSE),
        RunArgs(<<EntityOwnedRead>>, "user123", << <<"1">>, <<"2">> >>, FALSE),
        RunArgs(<<EntityOwnedRead>>, "user456", << <<"3">> >>, TRUE),
        RunArgs(<<EntityRead, NotAString>>, "user123", NoVariables, FALSE)}
  ELSE IF ch = "c1" /\ unique = "B"
  THEN {RunArgs(<<EntityWrite>>, "user456", NoVariables, FALSE)}
  ELSE {RunArgs(<<EntityWrite>>, "user456", NoVariables, FALSE)}

\* the rule lists each chain calls runWithPermissionsBypassOwner with
BypassRulesOf(ch, unique) ==
  IF ch = "c1" /\ unique = "A" THEN {<<EntityRead>>}
  ELSE IF ch = "c1" /\ unique = "B" THEN {<<EntityWrite>>}
  ELSE {}

GuardsOf(ch) == IF ch = "c1" THEN Guards ELSE {"A"}

\* the rule lists each chain requires
RequiredOf(ch) ==
  IF ch = "c1"
  THEN {<<>>, <<EntityRead>>, <<EntityWrite>>, <<Entity1Read>>, <<Entity3Read>>,
        <<EntityWrite, EntityNewlineRead>>}
  ELSE {<<EntityRead>>, <<EntityWrite>>}

\* the rule lists the guarded methods of each chain are decorated with
DecoratedOf(ch) ==
  IF ch = "c1" THEN {<<EntityRead>>, <<EntityWrite, EntityNewlineRead>>} ELSE {}

\* what a callback or a guarded method may return and throw
CallbackValues == {"data"}

CallbackErrors == {Error("callback failed")}

---------------------------------------------------------------------------
(* Inputs of the static functions *)

\* rule strings beyond the exhaustively enumerated ones:
\* 'a/**', 'a/a/a', 'a/aa', 'a/ /a', '**/a', 'a/*/a', 'a/:x/a', ':x', 'a/\na', 42,
\* 'a/a', 'a/A', 'a/*', '*/a', '*/*', ' a ', '/a/', '/**',
\* 'a/**/a', '*/**/a', '**/**', '**/*'
ExtraStrings ==
  {<<"a", "/", "*", "*">>, <<"a", "/", "a", "/", "a">>, <<"a", "/", "a", "a">>,
   <<"a", "/", " ", "/", "a">>, <<"*", "*", "/", "a">>, <<"a", "/", "*", "/", "a">>,
   <<"a", "/", ":", "x", "/", "a">>, <<":", "x">>, <<"a", "/", "\n", "a">>, NotAString,
   <<"a", "/", "a">>, <<"a", "/", "A">>, <<"a", "/", "*">>, <<"*", "/", "a">>,
   <<"*", "/", "*">>, <<" ", "a", " ">>, <<"/", "a", "/">>, <<"/", "*", "*">>,
   <<"a", "/", "*", "*", "/", "a">>, <<"*", "/", "*", "*", "/", "a">>,
   <<"*", "*", "/", "*", "*">>, <<"*", "*", "/", "*">>}

\* the required rules: every string of up to MaxLen characters, and the extra ones
RequiredStrings == Strings(MaxLen) \cup ExtraStrings

\* the granted rules: the same strings
GrantedStrings == Strings(MaxLen) \cup ExtraStrings

\* a rule of exactly the longest accepted length, and one a character longer
LongestRule == [i \in 1..MaxRuleLength |-> "a"]

TooLongRule == [i \in 1..(MaxRuleLength + 1) |-> "a"]

\* rules parseRule rejects: 42, 'a/\na', 'a\t', '\ra', and the one too long
MalformedRules ==
  {NotAString, <<"a", "/", "\n", "a">>, <<"a", "\t">>, <<"\r", "a">>, TooLongRule}

\* the required lists checked for malformed rules: well-formed rules that a
\* granted rule may or may not match, mixed with malformed ones
MalformedListRules == {<<"a">>, <<"a", "/", "a">>} \cup (MalformedRules \ {TooLongRule})

\* the required lists with a rule at the length limit
LongRuleLists ==
  {<<LongestRule>>, <<TooLongRule>>, <<<<"a">>, TooLongRule>>, <<TooLongRule, <<"a">> >>,
   <<LongestRule, TooLongRule>>, <<LongestRule, <<"a">> >>}

\* the rules of the granted lists that hold malformed strings: 'a', 'a/*',
\* 'a/\na' and the rule too long
MalformedGrantedRules == {<<"a">>, <<"a", "/", "*">>, <<"a", "/", "\n", "a">>, TooLongRule}

\* the well-formed rules required of them: 'a', 'a/a'
WellFormedRequiredRules == {<<"a">>, <<"a", "/", "a">>}

\* the granted lists they are checked against
LongRuleGranted == {<<>>, << <<"a">> >>, <<LongestRule>>, <<DoubleStar>>}

\* the rule strings parsed side by side: every string of up to MaxLen
\* characters, and '/a//a/', 'a/a', ' a / a ', 'a/ /a'
ParseStrings ==
  Strings(MaxLen) \cup
    {<<"/", "a", "/", "/", "a", "/">>, <<"a", "/", "a">>,
     <<" ", "a", " ", "/", " ", "a", " ">>, <<"a", "/", " ", "/", "a">>}

\* the rules the lists handed to match are made of: '', '/', 'a', 'a/a', 'a/*', '**'
ListRules == {<<>>, <<"/">>, <<"a">>, <<"a", "/", "a">>, <<"a", "/", "*">>, DoubleStar}

Lists(S, n) == UNION {[1..k -> S] : k \in 0..n}

FnCall(fn, requiredRules, rules) ==
  [fn |-> fn, requiredRules |-> requiredRules, rules |-> rules]

NoFnCall == FnCall("none", <<>>, <<>>)

NotEvaluated == [fn |-> "none", out |-> Pending]

---------------------------------------------------------------------------
(* The calls of a chain *)

NoCall ==
  [name |-> "none", phase |-> "idle", unique |-> "A", entry |-> "none",
   required |-> <<>>, entityOwner |-> Undefined,
   rules |-> <<>>, owner |-> Undefined, variables |-> NoVariables, inheritRule |-> FALSE,
   store |-> NoStore, context |-> Return(Absent), callback |-> Pending, result |-> Pending,
   awaits |-> 0, suspended |-> 0, started |-> FALSE]

\* a call that has evaluated this.getContext() and waits on its promise; `store`
\* is the store the caller is in, `suspended` the number of times the callback
\* the call is made from has been suspended before it
Call(name, unique, ch) ==
  [NoCall EXCEPT !.name = name, !.phase = "awaitContext", !.unique = unique,
                 !.store = getStore(stack, ch),
                 !.context = getContext(getStore(stack, ch), unique),
                 !.suspended = IF frames[ch] = <<>> THEN 0
                               ELSE frames[ch][Len(frames[ch])].awaits]

Settle(ch, result) ==
  op' = [op EXCEPT ![ch].phase = "settled", ![ch].result = result]

Init ==
  /\ stack = [ch \in Chains |-> <<>>]
  /\ frames = [ch \in Chains |-> <<>>]
  /\ op = [ch \in Chains |-> NoCall]
  /\ fnArgs = NoFnCall
  /\ fnResult = NotEvaluated

CallCheckRequiredPermissions(ch, unique, required) ==
  /\ op[ch].phase # "awaitContext"
  /\ op' = [op EXCEPT ![ch] =
              [Call("checkRequiredPermissions", unique, ch) EXCEPT !.required = required]]
  /\ UNCHANGED <<stack, frames, fnArgs, fnResult>>

ResumeCheckRequiredPermissions(ch) ==
  /\ op[ch].phase = "awaitContext"
  /\ op[ch].name = "checkRequiredPermissions"
  /\ Settle(ch, checkRequiredPermissions(op[ch].context, op[ch].required))
  /\ stack' = [stack EXCEPT ![ch] =
                 afterCheck(@, checkRequiredPermissions(op[ch].context, op[ch].required))]
  /\ UNCHANGED <<frames, fnArgs, fnResult>>

CallCheckRequiredOwner(ch, unique, entityOwner) ==
  /\ op[ch].phase # "awaitContext"
  /\ op' = [op EXCEPT ![ch] =
              [Call("checkRequiredOwner", unique, ch) EXCEPT !.entityOwner = entityOwner]]
  /\ UNCHANGED <<stack, frames, fnArgs, fnResult>>

ResumeCheckRequiredOwner(ch) ==
  /\ op[ch].phase = "awaitContext"
  /\ op[ch].name = "checkRequiredOwner"
  /\ Settle(ch, checkRequiredOwner(op[ch].unique, op[ch].context, op[ch].entityOwner))
  /\ stack' = [stack EXCEPT ![ch] =
                 afterCheck(@, checkRequiredOwner(op[ch].unique, op[ch].context,
                                                  op[ch].entityOwner))]
  /\ UNCHANGED <<frames, fnArgs, fnResult>>

CallGetOwner(ch, unique) ==
  /\ op[ch].phase # "awaitContext"
  /\ op' = [op EXCEPT ![ch] = Call("getOwner", unique, ch)]
  /\ UNCHANGED <<stack, frames, fnArgs, fnResult>>

ResumeGetOwner(ch) ==
  /\ op[ch].phase = "awaitContext"
  /\ op[ch].name = "getOwner"
  /\ Settle(ch, getOwner(op[ch].context))
  /\ UNCHANGED <<stack, frames, fnArgs, fnResult>>

\* a method decorated with PermissionRequired(required) is invoked: the wrapper
\* calls checkRequiredPermissions, which waits on getContext
CallGuardedMethod(ch, unique, required) ==
  /\ op[ch].phase # "awaitContext"
  /\ op' = [op EXCEPT ![ch] =
              [Call("PermissionRequired", unique, ch) EXCEPT !.required = required]]
  /\ UNCHANGED <<stack, frames, fnArgs, fnResult>>

\* the check completes; the wrapper throws its error, or calls the original
\* method and settles with the original's outcome
ResumeGuardedMethod(ch, original) ==
  /\ op[ch].phase = "awaitContext"
  /\ op[ch].name = "PermissionRequired"
  /\ op' = [op EXCEPT
              ![ch].phase = "settled",
              ![ch].started = PermissionRequired(op[ch].context, op[ch].required, original).started,
              ![ch].result = PermissionRequired(op[ch].context, op[ch].required, original).out]
  /\ UNCHANGED <<stack, frames, fnArgs, fnResult>>

\* runWithPermissions(rules, owner, callback, variables, inheritRule): the method
\* declares three parameters, so the last two arguments of a caller are dropped
CallRunWithPermissions(ch, unique, rules, owner, variables, inheritRule) ==
  /\ op[ch].phase # "awaitContext"
  /\ op' = [op EXCEPT ![ch] =
              [Call("runWithPermissions", unique, ch) EXCEPT
                 !.entry = "runWithPermissions", !.rules = rules, !.owner = owner,
                 !.variables = variables, !.inheritRule = inheritRule]]
  /\ UNCHANGED <<stack, frames, fnArgs, fnResult>>

\* runWithPermissionsBypassOwner(rules, callback) is
\* runWithPermissions(rules, ownerBypassSymbol, callback)
CallRunWithPermissionsBypassOwner(ch, unique, rules) ==
  /\ op[ch].phase # "awaitContext"
  /\ op' = [op EXCEPT ![ch] =
              [Call("runWithPermissions", unique, ch) EXCEPT
                 !.entry = "runWithPermissionsBypassOwner", !.rules = rules,
                 !.owner = ownerBypassSymbol]]
  /\ UNCHANGED <<stack, frames, fnArgs, fnResult>>

\* after the await: the nesting test, then storage.run enters the callback
ResumeRunWithPermissions(ch) ==
  /\ op[ch].phase = "awaitContext"
  /\ op[ch].name = "runWithPermissions"
  /\ IF runWithPermissionsError(op[ch].context) # NoError
     THEN /\ Settle(ch, Throw(runWithPermissionsError(op[ch].context)))
          /\ UNCHANGED <<stack, frames>>
     ELSE /\ stack' = [stack EXCEPT ![ch] =
                         Append(@, newStore(getStore(stack, ch), op[ch].unique,
                                            op[ch].rules, op[ch].owner))]
          /\ frames' = [frames EXCEPT ![ch] = Append(@, op[ch])]
          /\ op' = [op EXCEPT ![ch].phase = "inCallback"]
  /\ UNCHANGED <<fnArgs, fnResult>>

\* the running callback awaits something that is not a call of the guard (a
\* timer, I/O, another promise) and is resumed
CallbackAwaits(ch) ==
  /\ op[ch].phase # "awaitContext"
  /\ frames[ch] # <<>>
  /\ frames[ch][Len(frames[ch])].awaits < MaxAwaits
  /\ stack' = [stack EXCEPT ![ch] = asyncResume(@)]
  /\ frames' = [frames EXCEPT ![ch][Len(frames[ch])].awaits = @ + 1]
  /\ UNCHANGED <<op, fnArgs, fnResult>>

\* the callback's promise settles: the continuation of runWithPermissions runs
\* outside storage.run, and the call of the innermost frame settles with what
\* `return await` and the catch block make of the callback's outcome
CallbackSettles(ch, result) ==
  /\ op[ch].phase # "awaitContext"
  /\ frames[ch] # <<>>
  /\ stack' = [stack EXCEPT ![ch] = runExit(@)]
  /\ frames' = [frames EXCEPT ![ch] = SubSeq(@, 1, Len(@) - 1)]
  /\ op' = [op EXCEPT ![ch] =
              [frames[ch][Len(frames[ch])] EXCEPT
                 !.phase = "settled", !.callback = result,
                 !.result = runWithPermissionsSettles(result)]]
  /\ UNCHANGED <<fnArgs, fnResult>>

CallbackReturns(ch) == \E v \in CallbackValues : CallbackSettles(ch, Return(v))

CallbackThrows(ch) == \E e \in CallbackErrors : CallbackSettles(ch, Throw(e))

Next ==
  \E ch \in Chains :
    \/ \E unique \in GuardsOf(ch), required \in RequiredOf(ch) :
         CallCheckRequiredPermissions(ch, unique, required)
    \/ ResumeCheckRequiredPermissions(ch)
    \/ \E unique \in GuardsOf(ch), entityOwner \in Owners :
         CallCheckRequiredOwner(ch, unique, entityOwner)
    \/ ResumeCheckRequiredOwner(ch)
    \/ \E unique \in GuardsOf(ch) : CallGetOwner(ch, unique)
    \/ ResumeGetOwner(ch)
    \/ \E required \in DecoratedOf(ch) : CallGuardedMethod(ch, "A", required)
    \/ \E v \in CallbackValues : ResumeGuardedMethod(ch, Return(v))
    \/ \E e \in CallbackErrors : ResumeGuardedMethod(ch, Throw(e))
    \/ \E unique \in GuardsOf(ch) : \E a \in RunArgsOf(ch, unique) :
         CallRunWithPermissions(ch, unique, a.rules, a.owner, a.variables, a.inheritRule)
    \/ \E unique \in GuardsOf(ch) : \E rules \in BypassRulesOf(ch, unique) :
         CallRunWithPermissionsBypassOwner(ch, unique, rules)
    \/ ResumeRunWithPermissions(ch)
    \/ CallbackReturns(ch)
    \/ CallbackThrows(ch)

Spec == Init /\ [][Next]_vars

\* The same calls on one guard, each chain opening the scope of the parallel
\* test, with the suspensions of the callbacks in between made explicit
NextSuspend ==
  \E ch \in Chains :
    \/ \E required \in {<<EntityRead>>, <<EntityWrite>>} :
         CallCheckRequiredPermissions(ch, "A", required)
    \/ ResumeCheckRequiredPermissions(ch)
    \/ \E entityOwner \in Owners : CallCheckRequiredOwner(ch, "A", entityOwner)
    \/ ResumeCheckRequiredOwner(ch)
    \/ CallGetOwner(ch, "A")
    \/ ResumeGetOwner(ch)
    \/ CallRunWithPermissions(ch, "A", IF ch = "c1" THEN <<EntityRead>> ELSE <<EntityWrite>>,
                              IF ch = "c1" THEN "user123" ELSE "user456", NoVariables, FALSE)
    \/ ResumeRunWithPermissions(ch)
    \/ CallbackAwaits(ch)
    \/ CallbackReturns(ch)
    \/ CallbackThrows(ch)

SpecSuspend == Init /\ [][NextSuspend]_vars

\* the callback of a scope of the parent chain starts a continuation (a timer
\* callback) and does not await it; the continuation runs as the child chain
SpawnContinuation(parent, child) ==
  /\ op[parent].phase # "awaitContext"
  /\ frames[parent] # <<>>
  /\ stack[child] = <<>>
  /\ op[child].phase # "awaitContext"
  /\ stack' = [stack EXCEPT ![child] = asyncInherit(stack[parent])]
  /\ UNCHANGED <<frames, op, fnArgs, fnResult>>

\* Chain c1 opens scopes of guard A and checks; its callback may leave a
\* continuation behind, chain c2, which only checks
NextSpawn ==
  \/ \E a \in RunArgsOf("c1", "A") :
       CallRunWithPermissions("c1", "A", a.rules, a.owner, a.variables, a.inheritRule)
  \/ ResumeRunWithPermissions("c1")
  \/ CallbackReturns("c1")
  \/ CallbackThrows("c1")
  \/ SpawnContinuation("c1", "c2")
  \/ \E ch \in Chains :
       \/ \E required \in RequiredOf("c2") : CallCheckRequiredPermissions(ch, "A", required)
       \/ ResumeCheckRequiredPermissions(ch)
       \/ \E entityOwner \in Owners : CallCheckRequiredOwner(ch, "A", entityOwner)
       \/ ResumeCheckRequiredOwner(ch)
       \/ CallGetOwner(ch, "A")
       \/ ResumeGetOwner(ch)

SpecSpawn == Init /\ [][NextSpawn]_vars

---------------------------------------------------------------------------
(* The static functions on their own *)

\* matchRule on every pair of rule strings; match and checkRequiredPermissions
\* on every pair of rule lists
InitFn ==
  /\ stack = [ch \in Chains |-> <<>>]
  /\ frames = [ch \in Chains |-> <<>>]
  /\ op = [ch \in Chains |-> NoCall]
  /\ \/ \E r \in RequiredStrings, g \in GrantedStrings :
          fnArgs = FnCall("matchRule", <<r>>, <<g>>)
     \/ \E fn \in {"match", "checkRequiredPermissions"},
           rs \in Lists(ListRules, MaxList), gs \in Lists(ListRules, MaxList) :
          fnArgs = FnCall(fn, rs, gs)
     \/ \E rs \in Lists(MalformedListRules, MaxList), gs \in Lists(ListRules, MaxList) :
          fnArgs = FnCall("checkRequiredPermissions", rs, gs)
     \/ \E rs \in LongRuleLists, gs \in LongRuleGranted :
          fnArgs = FnCall("checkRequiredPermissions", rs, gs)
     \/ \E rs \in Lists(WellFormedRequiredRules, MaxList),
           gs \in Lists(MalformedGrantedRules, MaxList) :
          fnArgs = FnCall("checkRequiredPermissions", rs, gs)
     \/ \E r1 \in ParseStrings, r2 \in ParseStrings :
          fnArgs = FnCall("parseRule", <<r1>>, <<r2>>)
  /\ fnResult = NotEvaluated

\* parseRule(rule) of two rule strings, the first kept in requiredRules and the
\* second in rules
EvalParseRule ==
  /\ fnArgs.fn = "parseRule"
  /\ fnResult.fn = "none"
  /\ fnResult' =
       [fn |-> "parseRule",
        out |-> IF matchRuleError(fnArgs.requiredRules[1], fnArgs.rules[1]) # NoError
                THEN Throw(matchRuleError(fnArgs.requiredRules[1], fnArgs.rules[1]))
                ELSE Return(<<parseRule(fnArgs.requiredRules[1]), parseRule(fnArgs.rules[1])>>)]
  /\ UNCHANGED <<stack, frames, op, fnArgs>>

\* matchRule(requiredRule, rule)
EvalMatchRule ==
  /\ fnArgs.fn = "matchRule"
  /\ fnResult.fn = "none"
  /\ fnResult' =
       [fn |-> "matchRule",
        out |-> IF matchRuleError(fnArgs.requiredRules[1], fnArgs.rules[1]) # NoError
                THEN Throw(matchRuleError(fnArgs.requiredRules[1], fnArgs.rules[1]))
                ELSE Return(matchRule(fnArgs.requiredRules[1], fnArgs.rules[1]))]
  /\ UNCHANGED <<stack, frames, op, fnArgs>>

\* match(requiredRules, rules)
EvalMatch ==
  /\ fnArgs.fn = "match"
  /\ fnResult.fn = "none"
  /\ fnResult' = [fn |-> "match", out |-> match(fnArgs.requiredRules, fnArgs.rules)]
  /\ UNCHANGED <<stack, frames, op, fnArgs>>

\* checkRequiredPermissions(required) in a scope that runWithPermissions opened
\* with these rules
EvalCheckRequiredPermissions ==
  /\ fnArgs.fn = "checkRequiredPermissions"
  /\ fnResult.fn = "none"
  /\ fnResult' =
       [fn |-> "checkRequiredPermissions",
        out |-> checkRequiredPermissions(
                  getContext(newStore(NoStore, "A", fnArgs.rules, "user123"), "A"),
                  fnArgs.requiredRules)]
  /\ UNCHANGED <<stack, frames, op, fnArgs>>

NextFn == EvalParseRule \/ EvalMatchRule \/ EvalMatch \/ EvalCheckRequiredPermissions

SpecFn == InitFn /\ [][NextFn]_vars

---------------------------------------------------------------------------
(* mergeVariables evaluated on its own *)

\* the value lists of a key: none, one value, two values
ValueLists == {<<>>, <<"1">>, <<"1", "2">>}

\* the variable sets: some of the keys, each with a value list
VarSets == UNION {[ks -> ValueLists] : ks \in SUBSET Keys}

\* the arguments: objects, and undefined
VarArgs == {VarSet(set) : set \in VarSets} \cup {NoVarSet}

\* the arguments of the call are kept in rules
InitMerge ==
  /\ stack = [ch \in Chains |-> <<>>]
  /\ frames = [ch \in Chains |-> <<>>]
  /\ op = [ch \in Chains |-> NoCall]
  /\ \E varSets \in Lists(VarArgs, MaxArgs) :
       fnArgs = FnCall("mergeVariables", <<>>, varSets)
  /\ fnResult = NotEvaluated

\* mergeVariables(...vars)
EvalMergeVariables ==
  /\ fnArgs.fn = "mergeVariables"
  /\ fnResult.fn = "none"
  /\ fnResult' = [fn |-> "mergeVariables", out |-> mergeVariables(fnArgs.rules)]
  /\ UNCHANGED <<stack, frames, op, fnArgs>>

NextMerge == EvalMergeVariables

SpecMerge == InitMerge /\ [][NextMerge]_vars

---------------------------------------------------------------------------
(* What a chain's own calls installed, read off its frames *)

HasOwnFrame(fs, unique) == \E i \in 1..Len(fs) : fs[i].unique = unique

\* the innermost runWithPermissions call of this guard whose callback is running
InnermostFrame(fs, unique) ==
  fs[CHOOSE i \in 1..Len(fs) :
       fs[i].unique = unique /\ \A j \in (i + 1)..Len(fs) : fs[j].unique # unique]

AllStrings(rules) == \A i \in 1..Len(rules) : typeof(rules[i]) = "string"

\* a context of this guard is active: a scope of the chain's own is open for it
\* and getContext returns it (its rules are all strings)
ActiveOwn(fs, unique) ==
  HasOwnFrame(fs, unique) /\ AllStrings(InnermostFrame(fs, unique).rules)

\* what getContext has to give a chain that sees its own scopes only
OwnContext(fs, unique) ==
  IF ~HasOwnFrame(fs, unique) THEN Return(Absent)
  ELSE IF ~AllStrings(InnermostFrame(fs, unique).rules)
       THEN [Throw(Error("Invalid rules: must be an array of strings")) EXCEPT !.value = Absent]
  ELSE Return(Metadata(InnermostFrame(fs, unique).rules, InnermostFrame(fs, unique).owner))

\* the frames of the chain when its current call read the context
FramesAtCall(ch) ==
  IF op[ch].phase = "inCallback" THEN SubSeq(frames[ch], 1, Len(frames[ch]) - 1)
  ELSE frames[ch]

CheckNames == {"checkRequiredPermissions", "checkRequiredOwner", "getOwner"}

SettledCheck(ch, name) == op[ch].phase = "settled" /\ op[ch].name = name

---------------------------------------------------------------------------
(* Claims *)

\* C1: isolation of concurrent scopes. Whatever the interleaving, the context a
\* call of a chain reads (for a check, for getOwner, for the nesting test of
\* runWithPermissions) is the one the chain's own open scopes installed, the
\* outcome of a check is the one that context gives, and runWithPermissions
\* fails as nested only where the chain itself has a scope of that guard open.
C1_Isolation ==
  \A ch \in Chains :
    op[ch].name # "none" =>
      /\ op[ch].context = OwnContext(FramesAtCall(ch), op[ch].unique)
      /\ SettledCheck(ch, "checkRequiredPermissions") =>
           op[ch].result =
             checkRequiredPermissions(OwnContext(frames[ch], op[ch].unique), op[ch].required)
      /\ SettledCheck(ch, "checkRequiredOwner") =>
           op[ch].result =
             checkRequiredOwner(op[ch].unique, OwnContext(frames[ch], op[ch].unique),
                                op[ch].entityOwner)
      /\ SettledCheck(ch, "getOwner") =>
           op[ch].result = getOwner(OwnContext(frames[ch], op[ch].unique))
      /\ (op[ch].phase = "settled" /\ op[ch].result.error = Error(NestedMessage)) =>
           HasOwnFrame(frames[ch], op[ch].unique)

\* C1 witness: both chains are inside a scope of guard A at once; c1, granted
\* 'e/r' only, has been refused 'e/w', and c2, granted 'e/w' only, has been refused 'e/r'
C1_Witness ==
  /\ HasOwnFrame(frames["c1"], "A") /\ HasOwnFrame(frames["c2"], "A")
  /\ InnermostFrame(frames["c1"], "A").rules = <<EntityRead>>
  /\ SettledCheck("c1", "checkRequiredPermissions")
  /\ op["c1"].unique = "A" /\ op["c1"].required = <<EntityWrite>>
  /\ op["c1"].result.error.name = "PermissionRuleError"
  /\ SettledCheck("c2", "checkRequiredPermissions")
  /\ op["c2"].required = <<EntityRead>>
  /\ op["c2"].result.error.name = "PermissionRuleError"

\* C2: with no context of the guard active on the calling chain,
\* checkRequiredPermissions, checkRequiredOwner and getOwner fail with
\* PermissionError 'Unauthorized' for every argument, a malformed required rule
\* included (the rules are not looked at).
C2_UnauthorizedWithoutContext ==
  \A ch \in Chains :
    (op[ch].phase = "settled" /\ op[ch].name \in CheckNames
       /\ ~HasOwnFrame(frames[ch], op[ch].unique)) =>
      op[ch].result = Throw(PermissionError("Unauthorized"))

\* C2 witness: outside every scope, checkRequiredPermissions(['e/w', 'e/\nr'])
\* has failed with 'Unauthorized'
C2_Witness ==
  \E ch \in Chains :
    /\ SettledCheck(ch, "checkRequiredPermissions")
    /\ frames[ch] = <<>>
    /\ op[ch].required = <<EntityWrite, EntityNewlineRead>>
    /\ op[ch].result = Throw(PermissionError("Unauthorized"))

\* C4: runWithPermissions called without inheritRule = true where a context of
\* the same guard is active fails with the nesting error; the callback is not
\* entered and the chain's stores (the outer context) are what they were.
C4_NestedRejected ==
  [][\A ch \in Chains :
       (/\ op[ch].phase = "awaitContext"
        /\ op[ch].name = "runWithPermissions"
        /\ ~op[ch].inheritRule
        /\ ActiveOwn(frames[ch], op[ch].unique)
        /\ op'[ch] # op[ch]) =>
         /\ op'[ch].phase = "settled"
         /\ op'[ch].result = Throw(Error(NestedMessage))
         /\ frames'[ch] = frames[ch]
         /\ stack'[ch] = stack[ch]]_vars

\* C4 witness: inside a scope of guard A, a runWithPermissions on A without
\* inheritRule has settled with the nesting error
C4_Witness ==
  \E ch \in Chains :
    /\ op[ch].phase = "settled"
    /\ op[ch].name = "runWithPermissions"
    /\ ~op[ch].inheritRule
    /\ ActiveOwn(frames[ch], op[ch].unique)
    /\ op[ch].result = Throw(Error(NestedMessage))

\* C5: runWithPermissions called with inheritRule = true inside an active scope
\* of the same guard does not fail with the nesting error, and its callback runs
\* under the parent's rules followed by the new rules and under the new owner.
C5_InheritExtendsParent ==
  \A ch \in Chains :
    (/\ op[ch].name = "runWithPermissions"
     /\ op[ch].inheritRule
     /\ op[ch].phase \in {"settled", "inCallback"}
     /\ ~op[ch].context.threw
     /\ op[ch].context.value.present) =>
      /\ op[ch].result.error # Error(NestedMessage)
      /\ op[ch].phase = "inCallback" =>
           getStore(stack, ch)[op[ch].unique] =
             Metadata(op[ch].context.value.rules \o op[ch].rules, op[ch].owner)

\* C6: a granted segment ':x' matches the required segment at its position
\* exactly when that segment's value is in the list bound to x in the active
\* context: in a scope granting 'e/:x/r', checkRequiredPermissions(['e/v/r'])
\* succeeds if and only if v is among the values the scope was opened with.
C6_VariableSegment ==
  \A ch \in Chains :
    (/\ SettledCheck(ch, "checkRequiredPermissions")
     /\ HasOwnFrame(frames[ch], op[ch].unique)
     /\ InnermostFrame(frames[ch], op[ch].unique).rules = <<EntityOwnedRead>>
     /\ op[ch].required \in {<<Entity1Read>>, <<Entity3Read>>}) =>
      (~op[ch].result.threw <=>
         \E i \in 1..Len(InnermostFrame(frames[ch], op[ch].unique).variables) :
           InnermostFrame(frames[ch], op[ch].unique).variables[i]
             = parseRule(op[ch].required[1])[2])

\* C7: under the default owner policy, in a scope opened by
\* runWithPermissions(rules, o, body) checkRequiredOwner(e) succeeds exactly when
\* e = o; in a scope opened by runWithPermissionsBypassOwner it succeeds for
\* every e; whenever it fails with a context active, it fails with
\* PermissionError 'Unauthorized owner'.
C7_OwnerDefaultPolicy ==
  \A ch \in Chains :
    (/\ SettledCheck(ch, "checkRequiredOwner")
     /\ op[ch].unique \in DefaultPolicyGuards
     /\ ActiveOwn(frames[ch], op[ch].unique)) =>
      /\ InnermostFrame(frames[ch], op[ch].unique).entry = "runWithPermissions" =>
           (~op[ch].result.threw <=>
              op[ch].entityOwner = InnermostFrame(frames[ch], op[ch].unique).owner)
      /\ InnermostFrame(frames[ch], op[ch].unique).entry = "runWithPermissionsBypassOwner" =>
           ~op[ch].result.threw
      /\ op[ch].result.threw =>
           op[ch].result = Throw(PermissionError("Unauthorized owner"))

\* C7 witness: in a scope opened by runWithPermissionsBypassOwner,
\* checkRequiredOwner('user456') has succeeded
C7_Witness ==
  \E ch \in Chains :
    /\ SettledCheck(ch, "checkRequiredOwner")
    /\ op[ch].unique \in DefaultPolicyGuards
    /\ ActiveOwn(frames[ch], op[ch].unique)
    /\ InnermostFrame(frames[ch], op[ch].unique).entry = "runWithPermissionsBypassOwner"
    /\ op[ch].entityOwner = "user456"
    /\ ~op[ch].result.threw

\* C14: teardown on both paths. A runWithPermissions whose callback ran settles
\* with exactly the callback's outcome (its value returned, its error rethrown),
\* and once a runWithPermissions has settled, by return or by throw, the chain
\* is in the store it was in before the call: it observes the context it observed
\* before, and where that was none a following runWithPermissions passes the
\* nesting test.
C14_Teardown ==
  \A ch \in Chains :
    (op[ch].name = "runWithPermissions" /\ op[ch].phase = "settled") =>
      /\ op[ch].callback # Pending => op[ch].result = op[ch].callback
      /\ getStore(stack, ch) = op[ch].store
      /\ getContext(getStore(stack, ch), op[ch].unique) = op[ch].context
      /\ op[ch].callback # Pending =>
           runWithPermissionsError(getContext(getStore(stack, ch), op[ch].unique)) = NoError

\* C14 witness: a runWithPermissions called outside every scope has rethrown
\* the error its callback threw, and the chain is outside every scope again
C14_Witness ==
  \E ch \in Chains :
    /\ op[ch].name = "runWithPermissions" /\ op[ch].phase = "settled"
    /\ op[ch].callback = Throw(Error("callback failed"))
    /\ op[ch].result = Throw(Error("callback failed"))
    /\ op[ch].store = NoStore
    /\ stack[ch] = <<>>

\* C15: the context survives suspension. A check made from the callback of a
\* scope, after any number of suspensions of that callback and before the
\* scope is torn down, reads the rules and the owner the scope was opened with,
\* whatever the other chain did in between; it never finds itself unauthorized.
C15_ContextSurvivesSuspension ==
  \A ch \in Chains :
    (op[ch].name \in CheckNames /\ ActiveOwn(frames[ch], op[ch].unique)) =>
      /\ op[ch].context =
           Return(Metadata(InnermostFrame(frames[ch], op[ch].unique).rules,
                           InnermostFrame(frames[ch], op[ch].unique).owner))
      /\ op[ch].phase = "settled" =>
           op[ch].result.error # PermissionError("Unauthorized")

\* C15 witness: in a scope granting 'e/r', the callback has been suspended
\* twice, the other chain has opened a scope of its own meanwhile, and
\* checkRequiredPermissions(['e/r']) made after that has succeeded
C15_Witness ==
  /\ SettledCheck("c1", "checkRequiredPermissions")
  /\ op["c1"].unique = "A"
  /\ op["c1"].suspended = 2
  /\ HasOwnFrame(frames["c1"], "A")
  /\ InnermostFrame(frames["c1"], "A").rules = <<EntityRead>>
  /\ op["c1"].required = <<EntityRead>>
  /\ op["c1"].result = Return(Undefined)
  /\ HasOwnFrame(frames["c2"], "A")

\* C16: a method wrapped by PermissionRequired(required) starts only after
\* checkRequiredPermissions(required) has completed without error; when the
\* check fails, for want of a context, for a malformed rule or for an unmatched
\* rule, the original method is not started and the caller receives the error
\* of the check; when it passes, the caller receives the original's outcome.
C16_GuardedMethod ==
  \A ch \in Chains :
    op[ch].name = "PermissionRequired" =>
      /\ op[ch].phase = "awaitContext" => ~op[ch].started
      /\ op[ch].phase = "settled" =>
           LET check == checkRequiredPermissions(OwnContext(frames[ch], op[ch].unique),
                                                 op[ch].required)
           IN  /\ op[ch].started <=> ~check.threw
               /\ check.threw => op[ch].result = check
               /\ ~check.threw =>
                    op[ch].result \in {Return(v) : v \in CallbackValues}
                                        \cup {Throw(e) : e \in CallbackErrors}
               /\ ~HasOwnFrame(frames[ch], op[ch].unique) =>
                    op[ch].result = Throw(PermissionError("Unauthorized"))

\* C16 witness: in a scope granting 'e/r', the method guarded by
\* PermissionRequired(['e/w', 'e/\nr']) was invoked, the check failed on the
\* malformed rule and the original method was not started
C16_Witness ==
  \E ch \in Chains :
    /\ op[ch].name = "PermissionRequired" /\ op[ch].phase = "settled"
    /\ HasOwnFrame(frames[ch], "A")
    /\ InnermostFrame(frames[ch], "A").rules = <<EntityRead>>
    /\ op[ch].required = <<EntityWrite, EntityNewlineRead>>
    /\ ~op[ch].started
    /\ op[ch].result = Throw(PermissionError("Invalid characters in permission rule"))

\* C17: a failed check leaves the scope intact. The step in which
\* checkRequiredPermissions or checkRequiredOwner fails inside a scope changes
\* neither the chain's stores nor its open scopes: the context still holds the
\* rules and the owner the scope was opened with, and every check made next
\* has the outcome those rules and that owner give.
C17_FailedCheckLeavesScope ==
  [][\A ch \in Chains :
       (/\ op[ch].phase = "awaitContext"
        /\ op[ch].name \in {"checkRequiredPermissions", "checkRequiredOwner"}
        /\ ActiveOwn(frames[ch], op[ch].unique)
        /\ op'[ch].phase = "settled"
        /\ op'[ch].result.threw) =>
         LET installed == Return(Metadata(InnermostFrame(frames[ch], op[ch].unique).rules,
                                          InnermostFrame(frames[ch], op[ch].unique).owner))
             now == getContext(getStore(stack', ch), op[ch].unique)
         IN  /\ stack'[ch] = stack[ch]
             /\ frames'[ch] = frames[ch]
             /\ now = installed
             /\ \A required \in RequiredOf(ch) :
                  checkRequiredPermissions(now, required)
                    = checkRequiredPermissions(installed, required)
             /\ \A entityOwner \in Owners :
                  checkRequiredOwner(op[ch].unique, now, entityOwner)
                    = checkRequiredOwner(op[ch].unique, installed, entityOwner)]_vars

\* C17 witness: in a scope opened with 'e/r' for user123, checkRequiredOwner('user456')
\* has failed, and the store still holds those rules and that owner
C17_Witness ==
  \E ch \in Chains :
    /\ SettledCheck(ch, "checkRequiredOwner")
    /\ op[ch].unique = "A"
    /\ op[ch].entityOwner = "user456"
    /\ op[ch].result = Throw(PermissionError("Unauthorized owner"))
    /\ HasOwnFrame(frames[ch], "A")
    /\ InnermostFrame(frames[ch], "A").rules = <<EntityRead>>
    /\ getStore(stack, ch)["A"] = Metadata(<<EntityRead>>, "user123")

\* C18: the bypass owner satisfies every ownership check. In a scope opened by
\* runWithPermissionsBypassOwner, checkRequiredOwner(e) succeeds for every entity
\* owner e, whatever ownerChecker the guard was constructed with.
C18_BypassSatisfiesEveryPolicy ==
  \A ch \in Chains :
    (/\ SettledCheck(ch, "checkRequiredOwner")
     /\ ActiveOwn(frames[ch], op[ch].unique)
     /\ InnermostFrame(frames[ch], op[ch].unique).entry = "runWithPermissionsBypassOwner") =>
      ~op[ch].result.threw

\* C21: a context is detached when its scope finishes. Once runWithPermissions
\* has settled, by return or by throw, and the chain has no scope open, a check
\* started afterwards reads no context, on the chain itself and on a
\* continuation its callback started without awaiting it.
C21_DetachedOnFinish ==
  [][(/\ op["c1"].name = "runWithPermissions"
      /\ op["c1"].phase = "settled"
      /\ frames["c1"] = <<>>) =>
       \A ch \in Chains :
         (/\ op'[ch] # op[ch]
          /\ op'[ch].name \in CheckNames
          /\ op'[ch].phase = "awaitContext") =>
           op'[ch].context = Return(Absent)]_vars

\* C22: grants are keyed by guard identity. Opening a scope of one guard inside
\* an active scope of another is not rejected as nested; whatever scopes the
\* chain has opened and left, the store gives each guard the rules and the owner
\* of that guard's own innermost open scope, a check on a guard has the outcome
\* that guard's own scope gives, and with no scope of its own open the guard's
\* checks fail as unauthorized whatever the other guard was granted.
C22_KeyedByGuard ==
  \A ch \in Chains :
    /\ \A unique \in Guards :
         getContext(getStore(stack, ch), unique) = OwnContext(frames[ch], unique)
    /\ (op[ch].name = "runWithPermissions" /\ op[ch].phase = "settled"
          /\ op[ch].result.error = Error(NestedMessage)) =>
         HasOwnFrame(frames[ch], op[ch].unique)
    /\ (op[ch].name = "runWithPermissions" /\ op[ch].phase = "inCallback") =>
         ~HasOwnFrame(FramesAtCall(ch), op[ch].unique)
    /\ SettledCheck(ch, "checkRequiredPermissions") =>
         op[ch].result =
           IF ~HasOwnFrame(frames[ch], op[ch].unique) THEN Throw(PermissionError("Unauthorized"))
           ELSE checkRequiredPermissions(OwnContext(frames[ch], op[ch].unique), op[ch].required)
    /\ SettledCheck(ch, "getOwner") =>
         op[ch].result =
           IF ~HasOwnFrame(frames[ch], op[ch].unique) THEN Throw(PermissionError("Unauthorized"))
           ELSE getOwner(OwnContext(frames[ch], op[ch].unique))

\* C22 witness: inside a scope of guard A granting 'e/r' to user123 a scope of
\* guard B granting 'e/w' to user456 is open, and guard A's check of 'e/w' made
\* inside both has failed with PermissionRuleError
C22_Witness ==
  /\ Len(frames["c1"]) = 2
  /\ frames["c1"][1].unique = "A" /\ frames["c1"][1].rules = <<EntityRead>>
  /\ frames["c1"][2].unique = "B" /\ frames["c1"][2].rules = <<EntityWrite>>
  /\ SettledCheck("c1", "checkRequiredPermissions")
  /\ op["c1"].unique = "A"
  /\ op["c1"].required = <<EntityWrite>>
  /\ op["c1"].result.error.name = "PermissionRuleError"

---------------------------------------------------------------------------
(* Claims about the matcher *)

MatchRuleReturned == fnResult.fn = "matchRule" /\ ~fnResult.out.threw

RequiredParts == parseRule(fnArgs.requiredRules[1])

GrantedParts == parseRule(fnArgs.rules[1])

\* a segment that is neither a wildcard nor a variable reference
IsLiteral(part) == part # Star /\ part # DoubleStar /\ (part = <<>> \/ part[1] # ":")

\* the required rules of the call that no granted rule of the call matches
NoGrantedRuleMatches(requiredRule) ==
  \A j \in 1..Len(fnArgs.rules) : ~matchRule(requiredRule, fnArgs.rules[j])

\* C3: in an active scope with well-formed rules, checkRequiredPermissions(required)
\* succeeds if and only if every required rule is matched by at least one granted
\* rule; otherwise it fails with PermissionRuleError whose details.required is the
\* required list and whose details.notMatched is the required rules without a
\* matching granted rule, in their order.
C3_CheckVerdict ==
  fnResult.fn = "checkRequiredPermissions" =>
    /\ ~fnResult.out.threw <=>
         SelectSeq(fnArgs.requiredRules, NoGrantedRuleMatches) = <<>>
    /\ fnResult.out.threw =>
         fnResult.out.error =
           PermissionRuleError([required |-> fnArgs.requiredRules,
                                notMatched |-> SelectSeq(fnArgs.requiredRules,
                                                         NoGrantedRuleMatches)])

\* C8: a granted rule P/** matches every required rule whose leading segments
\* are matched by P, the required rule with exactly the segments of P included;
\* so '**' alone matches every rule that parses, the one without segments too.
C8_DoubleStarCoversRest ==
  (/\ MatchRuleReturned
   /\ GrantedParts # <<>>
   /\ GrantedParts[Len(GrantedParts)] = DoubleStar
   /\ \A i \in 1..(Len(GrantedParts) - 1) : GrantedParts[i] # DoubleStar
   /\ Len(RequiredParts) >= Len(GrantedParts) - 1
   /\ \A i \in 1..(Len(GrantedParts) - 1) :
        GrantedParts[i] = Star \/ GrantedParts[i] = RequiredParts[i]) =>
    fnResult.out.value = TRUE

\* C9: '*' consumes exactly one segment. matchRule(required, '*') is true if and
\* only if required parses to exactly one segment, and a granted rule L/* with a
\* literal L matches exactly the required rules of two segments that begin with L.
C9_StarOneSegment ==
  MatchRuleReturned =>
    /\ GrantedParts = <<Star>> =>
         (fnResult.out.value <=> Len(RequiredParts) = 1)
    /\ (Len(GrantedParts) = 2 /\ IsLiteral(GrantedParts[1]) /\ GrantedParts[2] = Star) =>
         (fnResult.out.value <=>
            (Len(RequiredParts) = 2 /\ RequiredParts[1] = GrantedParts[1]))

\* C9 witness: matchRule('a/a', '*') has returned false
C9_Witness ==
  /\ MatchRuleReturned
  /\ fnArgs.requiredRules = << <<"a", "/", "a">> >>
  /\ fnArgs.rules = <<Star>>
  /\ fnResult.out.value = FALSE

ParserMessages ==
  {"Permission rule must be a string", "Permission rule is too long",
   "Invalid characters in permission rule"}

\* a rule that is not a string, is longer than 2048 characters, or holds a
\* newline, a tab or a carriage return
Malformed(rule) ==
  \/ rule = NotAString
  \/ Len(rule) > 2048
  \/ \E i \in 1..Len(rule) : rule[i] \in {"\n", "\t", "\r"}

\* C13: inside an active scope, when a rule of the required list is malformed
\* (not a string, longer than 2048 characters, holding a newline, tab or
\* carriage return) checkRequiredPermissions fails with PermissionError carrying
\* one of the parser's messages, never with PermissionRuleError, whatever the
\* granted rules are and whether the other required rules match or not; when no
\* required rule is malformed, a rule of exactly 2048 characters among them, and
\* no granted rule is, it never fails with PermissionError.
C13_MalformedRequired ==
  fnResult.fn = "checkRequiredPermissions" =>
    IF \E i \in 1..Len(fnArgs.requiredRules) : Malformed(fnArgs.requiredRules[i])
    THEN /\ fnResult.out.threw
         /\ fnResult.out.error.name = "PermissionError"
         /\ fnResult.out.error.message \in ParserMessages
    ELSE (\A j \in 1..Len(fnArgs.rules) : ~Malformed(fnArgs.rules[j])) =>
           fnResult.out.error.name # "PermissionError"

\* C13 witness: with no granted rule at all, checkRequiredPermissions(['a', 'a/\na'])
\* has failed with the parser's error
C13_Witness ==
  /\ fnResult.fn = "checkRequiredPermissions"
  /\ fnArgs.requiredRules = << <<"a">>, <<"a", "/", "\n", "a">> >>
  /\ fnArgs.rules = <<>>
  /\ fnResult.out = Throw(PermissionError("Invalid characters in permission rule"))

\* the segments of a rule string with the separators at its ends, the repeated
\* separators and the whitespace around its segments taken away: the pieces
\* between separators, trimmed, the empty ones dropped
CanonicalSegments(rule) ==
  filterBoolean([i \in 1..Len(split(rule)) |-> trim(split(rule)[i])])

\* the rules two strings are compared against
OtherRules == ListRules \cup {Star, <<"*", "/", "a">>, <<"a", "/", "*", "*">>}

\* C19: parsing is canonicalizing. Two rule strings that differ only by
\* leading, trailing or repeated '/' and by whitespace around segments parse to
\* the same sequence of segments, and two rule strings with the same parse give
\* the same matchRule result against every other rule, as the required rule and
\* as the granted one.
C19_ParsingCanonical ==
  (fnResult.fn = "parseRule" /\ ~fnResult.out.threw) =>
    /\ CanonicalSegments(fnArgs.requiredRules[1]) = CanonicalSegments(fnArgs.rules[1]) =>
         fnResult.out.value[1] = fnResult.out.value[2]
    /\ fnResult.out.value[1] = fnResult.out.value[2] =>
         \A other \in OtherRules :
           /\ matchRule(fnArgs.requiredRules[1], other) = matchRule(fnArgs.rules[1], other)
           /\ matchRule(other, fnArgs.requiredRules[1]) = matchRule(other, fnArgs.rules[1])

\* the first granted rule of the call, in the order supplied, that matches
FirstMatch(requiredRule) ==
  fnArgs.rules[CHOOSE j \in 1..Len(fnArgs.rules) :
                 /\ matchRule(requiredRule, fnArgs.rules[j])
                 /\ \A k \in 1..(j - 1) : ~matchRule(requiredRule, fnArgs.rules[k])]

\* C20: first-match-wins. When every required rule is matched by some granted
\* rule, match returns, for each required rule in order, the pair of that rule
\* and the first granted rule, in the order supplied, that matches it; granted
\* rules before it that do not match do not stand in the way.
C20_FirstMatchWins ==
  (/\ fnResult.fn = "match"
   /\ \A i \in 1..Len(fnArgs.requiredRules) : ~NoGrantedRuleMatches(fnArgs.requiredRules[i])) =>
    /\ ~fnResult.out.threw
    /\ fnResult.out.value =
         [i \in 1..Len(fnArgs.requiredRules) |->
            <<fnArgs.requiredRules[i], FirstMatch(fnArgs.requiredRules[i])>>]

\* the segments of the granted rule of the call up to its first '**': P/**
UpToFirstDoubleStar ==
  SubSeq(GrantedParts, 1,
         CHOOSE i \in 1..Len(GrantedParts) :
           GrantedParts[i] = DoubleStar /\ \A j \in 1..(i - 1) : GrantedParts[j] # DoubleStar)

\* C23: '**' is terminal at any position. For a granted rule P/**/S the result
\* of matchRule is the result for the granted segments P/**: the segments after
\* the first '**' have no part in the verdict.
C23_DoubleStarTerminal ==
  (MatchRuleReturned /\ \E i \in 1..Len(GrantedParts) : GrantedParts[i] = DoubleStar) =>
    fnResult.out.value = matchRuleLoop(RequiredParts, UpToFirstDoubleStar, 0)

\* C23 witness: matchRule('A', '**/a') has returned true
C23_Witness ==
  /\ MatchRuleReturned
  /\ fnArgs.requiredRules = << <<"A">> >>
  /\ fnArgs.rules = << <<"*", "*", "/", "a">> >>
  /\ fnResult.out.value = TRUE

\* C24: a malformed granted rule is rejected as malformed. Whenever the active
\* context holds a granted rule longer than 2048 characters or holding a
\* newline, a tab or a carriage return, checkRequiredPermissions of a non-empty
\* list of well-formed rules fails with PermissionError carrying one of the
\* parser's messages, wherever the malformed rule stands among the granted ones.
C24_MalformedGranted ==
  (/\ fnResult.fn = "checkRequiredPermissions"
   /\ fnArgs.requiredRules # <<>>
   /\ \A i \in 1..Len(fnArgs.requiredRules) : ~Malformed(fnArgs.requiredRules[i])
   /\ \E j \in 1..Len(fnArgs.rules) :
        fnArgs.rules[j] # NotAString /\ Malformed(fnArgs.rules[j])) =>
    /\ fnResult.out.threw
    /\ fnResult.out.error.name = "PermissionError"
    /\ fnResult.out.error.message \in ParserMessages

\* C25: wildcards have meaning on the granted side only. A '*', '**' or ':name'
\* segment of a required rule is compared as a literal: when matchRule returns
\* true, each such segment of the required rule is covered by a '**' of the
\* granted rule at or before its position, or faces a '*' or the identical
\* token at its position in the granted rule.
C25_RequiredWildcardsLiteral ==
  (MatchRuleReturned /\ fnResult.out.value = TRUE) =>
    \A i \in 1..Len(RequiredParts) :
      ~IsLiteral(RequiredParts[i]) =>
        \/ \E k \in 1..i : k <= Len(GrantedParts) /\ GrantedParts[k] = DoubleStar
        \/ /\ i <= Len(GrantedParts)
           /\ GrantedParts[i] = Star \/ GrantedParts[i] = RequiredParts[i]

\* C25 witness: matchRule('a/*', 'a/a') has returned false
C25_Witness ==
  /\ MatchRuleReturned
  /\ fnArgs.requiredRules = << <<"a", "/", "*">> >>
  /\ fnArgs.rules = << <<"a", "/", "a">> >>
  /\ fnResult.out.value = FALSE

\* the set of the rules of a list
RulesOf(list) == {list[i] : i \in 1..Len(list)}

\* checkRequiredPermissions of the required rules of the call in a scope opened
\* with these granted rules
CheckAgainst(granted) ==
  checkRequiredPermissions(getContext(newStore(NoStore, "A", granted, "user123"), "A"),
                           fnArgs.requiredRules)

\* C26: for well-formed rules the verdict of checkRequiredPermissions depends on
\* the set of granted rules only. A granted list with the same rules in another
\* order or with repetitions gives the same outcome, notMatched included, and a
\* granted list with more rules does not fail where the shorter one succeeds.
C26_GrantedSetOnly ==
  (/\ fnResult.fn = "checkRequiredPermissions"
   /\ RulesOf(fnArgs.requiredRules) \subseteq ListRules
   /\ RulesOf(fnArgs.rules) \subseteq ListRules) =>
    \A other \in Lists(ListRules, MaxList) :
      /\ RulesOf(other) = RulesOf(fnArgs.rules) => CheckAgainst(other) = fnResult.out
      /\ (RulesOf(fnArgs.rules) \subseteq RulesOf(other) /\ ~fnResult.out.threw) =>
           ~CheckAgainst(other).threw

\* the arguments of the call that are objects, in argument order
PresentArgs == SelectSeq(fnArgs.rules, LAMBDA v : v.present)

\* the keys present in any argument
KeysOfArgs == UNION {DOMAIN PresentArgs[i].set : i \in 1..Len(PresentArgs)}

\* the value lists of a key in the arguments from the i-th on, concatenated
RECURSIVE ConcatOf(_, _)
ConcatOf(key, i) ==
  IF i > Len(PresentArgs) THEN <<>>
  ELSE (IF key \in DOMAIN PresentArgs[i].set THEN PresentArgs[i].set[key] ELSE <<>>)
         \o ConcatOf(key, i + 1)

\* mergeVariables has been evaluated
MergeEvaluated == fnResult.fn = "mergeVariables"

\* C27: mergeVariables(v1, ..., vn) returns an object that has exactly the keys
\* present in any argument, each with the concatenation of that key's value
\* lists in argument order, duplicates kept; arguments that are undefined or
\* null are skipped, and the arguments are what they were.
C27_MergeVariables ==
  MergeEvaluated =>
    /\ ~fnResult.out.threw
    /\ DOMAIN fnResult.out.value = KeysOfArgs
    /\ \A key \in KeysOfArgs : fnResult.out.value[key] = ConcatOf(key, 1)

\* C27 without keys that name a member of Object.prototype: the merge is the
\* concatenation per key
C27_OwnKeysOnly ==
  (MergeEvaluated /\ KeysOfArgs \cap ObjectPrototypeKeys = {}) =>
    /\ ~fnResult.out.threw
    /\ DOMAIN fnResult.out.value = KeysOfArgs
    /\ \A key \in KeysOfArgs : fnResult.out.value[key] = ConcatOf(key, 1)

\* a merge of two objects and a skipped argument's place: x: ['1'] and
\* x: ['1', '2'] give x: ['1', '1', '2']
C27_DuplicatesKept ==
  /\ MergeEvaluated
  /\ Len(fnArgs.rules) = 2
  /\ ~fnResult.out.threw
  /\ "x" \in DOMAIN fnResult.out.value
  /\ fnResult.out.value["x"] = <<"1", "1", "2">>

\* an undefined argument before an object has been skipped
C27_UndefinedSkipped ==
  /\ MergeEvaluated
  /\ Len(fnArgs.rules) = 2
  /\ ~fnArgs.rules[1].present
  /\ ~fnResult.out.threw
  /\ "y" \in DOMAIN fnResult.out.value
  /\ fnResult.out.value["y"] = <<"1", "2">>

\* mergeVariables({ constructor: ['1'] }) has thrown a TypeError
C27_PrototypeKeyThrows ==
  /\ MergeEvaluated
  /\ fnArgs.rules = <<VarSet([key \in {"constructor"} |-> <<"1">>])>>
  /\ fnResult.out.threw
  /\ fnResult.out.error.name = "TypeError"

============================================================================
